---- MODULE Spec2Model ----
(***************************************************************************)
(* ssj: display SLURM job information.  Model of src/src/ssj/cli.py.       *)
(*                                                                         *)
(* A Python str is a sequence of one-character strings.  An Optional value *)
(* is a record [some, val]; a dict is the sequence of its <<key, value>>   *)
(* pairs in insertion order.                                               *)
(***************************************************************************)
EXTENDS Integers, Sequences, FiniteSets, TLC

VARIABLES args, job_ids, scontrol, fs, i, pc, data, console, calls

vars == <<args, job_ids, scontrol, fs, i, pc, data, console, calls>>

-----------------------------------------------------------------------------
(* Bounds of the model *)

MaxJobs == 2
MaxOutLen == 7
MaxTableToks == 2
MaxPatLen == 2
MaxFileLines == 2
MaxLines == 3

-----------------------------------------------------------------------------
(* Python values *)

NoneStr == [some |-> FALSE, val |-> <<>>]
NoneInt == [some |-> FALSE, val |-> 0]
NoneList == [some |-> FALSE, val |-> <<>>]
Some(v) == [some |-> TRUE, val |-> v]

\* truth value of an Optional[str] / Optional[List[str]]: None and empty are falsy
Truthy(o) == o.some /\ o.val # <<>>
\* truth value of an Optional[int]: None and 0 are falsy
TruthyInt(o) == o.some /\ o.val # 0

Whitespace == {" ", "\n", "\t"}

UpperCase == <<"A","B","C","D","E","F","G","H","I","J","K","L","M",
               "N","O","P","Q","R","S","T","U","V","W","X","Y","Z">>
LowerCase == <<"a","b","c","d","e","f","g","h","i","j","k","l","m",
               "n","o","p","q","r","s","t","u","v","w","x","y","z">>

LowerChar(c) ==
    IF \E n \in DOMAIN UpperCase : UpperCase[n] = c
    THEN LowerCase[CHOOSE n \in DOMAIN UpperCase : UpperCase[n] = c]
    ELSE c

\* str.lower()
lower(s) == [n \in DOMAIN s |-> LowerChar(s[n])]

RECURSIVE LStrip(_)
LStrip(s) == IF s # <<>> /\ Head(s) \in Whitespace THEN LStrip(Tail(s)) ELSE s

RECURSIVE RStrip(_)
RStrip(s) ==
    IF s # <<>> /\ s[Len(s)] \in Whitespace
    THEN RStrip(SubSeq(s, 1, Len(s) - 1))
    ELSE s

\* str.strip()
strip(s) == RStrip(LStrip(s))

RECURSIVE SplitFrom(_, _, _, _)
SplitFrom(s, n, cur, acc) ==
    IF n > Len(s)
    THEN IF cur = <<>> THEN acc ELSE Append(acc, cur)
    ELSE IF s[n] \in Whitespace
         THEN SplitFrom(s, n + 1, <<>>, IF cur = <<>> THEN acc ELSE Append(acc, cur))
         ELSE SplitFrom(s, n + 1, Append(cur, s[n]), acc)

\* str.split() with no separator: the maximal runs of non-whitespace
split(s) == SplitFrom(s, 1, <<>>, <<>>)

\* '=' in part
HasEq(part) == \E n \in DOMAIN part : part[n] = "="

RECURSIVE FindEq(_, _)
FindEq(part, n) == IF part[n] = "=" THEN n ELSE FindEq(part, n + 1)

\* part.split('=', 1) of a part that contains '='
SplitEq(part) ==
    LET n == FindEq(part, 1)
    IN  <<SubSeq(part, 1, n - 1), SubSeq(part, n + 1, Len(part))>>

\* dict lookup: d.get(k)
DictHas(d, k) == \E n \in DOMAIN d : d[n][1] = k
DictGet(d, k) ==
    IF DictHas(d, k)
    THEN Some(d[CHOOSE n \in DOMAIN d : d[n][1] = k][2])
    ELSE NoneStr

\* faulty variant: an existing key keeps its first value
DictSetFirstWins(d, k, v) ==
    IF DictHas(d, k) THEN d ELSE Append(d, <<k, v>>)

\* d[k] = v: a new key is appended, an existing key keeps its place
DictSet(d, k, v) ==
    IF DictHas(d, k)
    THEN [n \in DOMAIN d |-> IF d[n][1] = k THEN <<k, v>> ELSE d[n]]
    ELSE Append(d, <<k, v>>)

RECURSIVE ParseParts(_, _)
ParseParts(parts, kv_pairs) ==
    IF parts = <<>>
    THEN kv_pairs
    ELSE LET part == Head(parts)
         IN  ParseParts(Tail(parts),
                 IF HasEq(part)
                 THEN LET kv == SplitEq(part)
                      IN  DictSet(kv_pairs, strip(kv[1]), strip(kv[2]))
                 ELSE kv_pairs)

parse_scontrol_output(output) == ParseParts(split(strip(output)), <<>>)

-----------------------------------------------------------------------------
(* Strings used by the program and by the inputs *)

EQ == <<"=">>
NULL == <<"(", "n", "u", "l", "l", ")">>
KCommand == <<"C", "o", "m", "m", "a", "n", "d">>
KBatchScript == <<"B", "a", "t", "c", "h", "S", "c", "r", "i", "p", "t">>
KStdOut == <<"S", "t", "d", "O", "u", "t">>
KStdErr == <<"S", "t", "d", "E", "r", "r">>
KWorkDir == <<"W", "o", "r", "k", "D", "i", "r">>

-----------------------------------------------------------------------------
(* re: the patterns are written over letters, '.', '^', '$' and '(' *)

\* re.compile(p, re.IGNORECASE) raises re.error: a '(' that is never closed
\* (the pattern alphabet has no ')')
re_error(p) == \E n \in DOMAIN p : p[n] = "("

RECURSIVE MatchHere(_, _, _, _)
MatchHere(p, n, s, j) ==
    IF n > Len(p) THEN TRUE
    ELSE IF p[n] = "^" THEN j = 1 /\ MatchHere(p, n + 1, s, j)
    ELSE IF p[n] = "$" THEN j = Len(s) + 1 /\ MatchHere(p, n + 1, s, j)
    ELSE /\ j <= Len(s)
         /\ (p[n] = "." \/ LowerChar(p[n]) = LowerChar(s[j]))
         /\ MatchHere(p, n + 1, s, j + 1)

\* pattern.search(s) is not None: the pattern matches at some position of s
re_search(p, s) == \E j \in 1..(Len(s) + 1) : MatchHere(p, 1, s, j)

-----------------------------------------------------------------------------
(* JobDisplay.print_table *)

Contains(list, x) == \E n \in DOMAIN list : list[n] = x

\* lower_fields = [f.lower() for f in fields] if fields else None
LowerFields(fields) ==
    IF Truthy(fields)
    THEN Some([n \in DOMAIN fields.val |-> lower(fields.val[n])])
    ELSE NoneList

\* faulty variant: the key is compared without lowercasing it
RowMatchesCaseSensitive(key, lower_fields, pattern) ==
    /\ Truthy(lower_fields) => Contains(lower_fields.val, key)
    /\ pattern.some => re_search(pattern.val, key)

\* lines 58-66: fields_match and regex_match of one key
RowMatches(key, lower_fields, pattern) ==
    /\ Truthy(lower_fields) => Contains(lower_fields.val, lower(key))
    /\ pattern.some => re_search(pattern.val, key)

RECURSIVE TableRows(_, _, _, _)
TableRows(items, lower_fields, pattern, rows) ==
    IF items = <<>>
    THEN rows
    ELSE TableRows(Tail(items), lower_fields, pattern,
             IF RowMatches(Head(items)[1], lower_fields, pattern)
             THEN Append(rows, Head(items))
             ELSE rows)

\* what one console.print / print call shows; job = 0: the text names no job
Message(kind, job, file_type, path, body, suffix) ==
    [kind |-> kind, job |-> job, file_type |-> file_type, path |-> path, body |-> body,
     suffix |-> suffix]

\* faulty variant: a bad pattern is dropped and the table is built without it
print_table_no_return(jid, d, fields, regex_filter) ==
    LET rows == TableRows(d, LowerFields(fields), NoneStr, <<>>)
    IN  IF Len(rows) > 0
        THEN Message("table", jid, "", <<>>, rows, "")
        ELSE Message("warning_no_fields", jid, "", <<>>, <<>>, "")

\* the one message print_table prints
print_table(jid, d, fields, regex_filter) ==
    IF Truthy(regex_filter) /\ re_error(regex_filter.val)
    THEN Message("error_regex", 0, "", <<>>, regex_filter.val, "")
    ELSE LET pattern == IF Truthy(regex_filter) THEN regex_filter ELSE NoneStr
             rows == TableRows(d, LowerFields(fields), pattern, <<>>)
         IN  IF Len(rows) > 0
             THEN Message("table", jid, "", <<>>, rows, "")
             ELSE Message("warning_no_fields", jid, "", <<>>, <<>>, "")

-----------------------------------------------------------------------------
(* Paths and files *)

\* a or b
Or(a, b) == IF Truthy(a) THEN a ELSE b

get_script_path(d) == Or(DictGet(d, KCommand), DictGet(d, KBatchScript))
get_stdout_path(d) == DictGet(d, KStdOut)
get_stderr_path(d) == DictGet(d, KStdErr)
get_working_dir(d) == DictGet(d, KWorkDir)

\* os.path.isabs
isabs(p) == p # <<>> /\ p[1] = "/"

\* os.path.join(a, b) of two components
join(a, b) ==
    IF isabs(b) THEN b
    ELSE IF a = <<>> \/ a[Len(a)] = "/" THEN a \o b
    ELSE a \o <<"/">> \o b

\* lines 92-95 and 168-175: the path the file is looked up at
Resolve(d, file_path) ==
    IF ~isabs(file_path) /\ Truthy(get_working_dir(d))
    THEN join(get_working_dir(d).val, file_path)
    ELSE file_path

\* Path.exists / os.path.exists, os.path.isdir, and whether open() succeeds
exists(p) == p \in DOMAIN fs
isdir(p) == p \in DOMAIN fs /\ fs[p].kind = "dir"
CanOpen(p) == p \in DOMAIN fs /\ fs[p].kind = "file" /\ fs[p].readable

\* content_lines[-lines:]
LastLines(content_lines, lines) ==
    LET L == Len(content_lines)
        start == IF -lines < 0
                 THEN (IF L - lines > 0 THEN L - lines ELSE 0)
                 ELSE (IF -lines < L THEN -lines ELSE L)
    IN  SubSeq(content_lines, start + 1, L)

RECURSIVE FirstLines(_, _, _, _)
\* lines 111-114: the enumerate loop with its break
FirstLines(f, n, lines, content_lines) ==
    IF n >= Len(f) \/ n >= lines
    THEN content_lines
    ELSE FirstLines(f, n + 1, lines, Append(content_lines, f[n + 1]))

\* lines 105-119: the content and the title suffix
ReadContent(f, lines, tail) ==
    IF tail /\ TruthyInt(lines)
    THEN [content |-> LastLines(f, lines.val), suffix |-> "last"]
    ELSE IF TruthyInt(lines)
    THEN [content |-> FirstLines(f, 0, lines.val, <<>>), suffix |-> "first"]
    ELSE [content |-> f, suffix |-> ""]

Call(op, path) == [op |-> op, path |-> path]

\* faulty variant: no return after the check of the path value
show_file_content_no_return(jid, d, file_path, file_type, lines, tail) ==
    LET p == Resolve(d, file_path.val)
    IN  IF ~exists(p)
        THEN [msg |-> Message("error_not_found", 0, file_type, p, <<>>, ""),
              calls |-> <<Call("exists", p)>>]
        ELSE IF ~CanOpen(p)
        THEN [msg |-> Message("error_read", 0, file_type, p, <<>>, ""),
              calls |-> <<Call("exists", p), Call("open", p)>>]
        ELSE LET r == ReadContent(fs[p].lines, lines, tail)
             IN  [msg |-> Message("panel", jid, file_type, p, r.content, r.suffix),
                  calls |-> <<Call("exists", p), Call("open", p)>>]

\* the one message show_file_content prints and the file system calls it makes
show_file_content(jid, d, file_path, file_type, lines, tail) ==
    IF ~Truthy(file_path) \/ file_path.val = NULL
    THEN [msg |-> Message("warning_no_path", jid, file_type, <<>>, <<>>, ""),
          calls |-> <<>>]
    ELSE LET p == Resolve(d, file_path.val)
         IN  IF ~exists(p)
             THEN [msg |-> Message("error_not_found", 0, file_type, p, <<>>, ""),
                   calls |-> <<Call("exists", p)>>]
             ELSE IF ~CanOpen(p)
             THEN [msg |-> Message("error_read", 0, file_type, p, <<>>, ""),
                   calls |-> <<Call("exists", p), Call("open", p)>>]
             ELSE LET r == ReadContent(fs[p].lines, lines, tail)
                  IN  [msg |-> Message("panel", jid, file_type, p, r.content, r.suffix),
                       calls |-> <<Call("exists", p), Call("open", p)>>]

show_script(jid, d, lines, tail) ==
    show_file_content(jid, d, get_script_path(d), "script", lines, tail)
show_stdout(jid, d, lines, tail) ==
    show_file_content(jid, d, get_stdout_path(d), "stdout log", lines, tail)
show_stderr(jid, d, lines, tail) ==
    show_file_content(jid, d, get_stderr_path(d), "stderr log", lines, tail)

\* lines 156-161
Files(d) ==
    << <<"Script", get_script_path(d)>>, <<"StdOut", get_stdout_path(d)>>,
       <<"StdErr", get_stderr_path(d)>>, <<"WorkDir", get_working_dir(d)>> >>

RECURSIVE ListRows(_, _, _)
\* lines 163-177: the rows <<File Type, Path, Exists>> and the calls made for them
ListRows(d, files, acc) ==
    IF files = <<>>
    THEN acc
    ELSE LET file_type == Head(files)[1]
             file_path == Head(files)[2]
         IN  ListRows(d, Tail(files),
               IF Truthy(file_path) /\ file_path.val # NULL
               THEN IF file_type = "WorkDir"
                    THEN [rows |-> Append(acc.rows,
                                     <<file_type, file_path.val, isdir(file_path.val)>>),
                          calls |-> Append(acc.calls, Call("isdir", file_path.val))]
                    ELSE LET abs_path == Resolve(d, file_path.val)
                         IN  [rows |-> Append(acc.rows,
                                          <<file_type, file_path.val, exists(abs_path)>>),
                              calls |-> Append(acc.calls, Call("exists", abs_path))]
               ELSE acc)

list_file_paths(jid, d) ==
    LET r == ListRows(d, Files(d), [rows |-> <<>>, calls |-> <<>>])
    IN  [msg |-> Message("files_table", jid, "", <<>>, r.rows, ""), calls |-> r.calls]

-----------------------------------------------------------------------------
(* main *)

\* faulty variant: --stdout tested before --script
DispatchStdoutBeforeScript(a) ==
    IF a.json THEN "json"
    ELSE IF a.files THEN "files"
    ELSE IF a.stdout THEN "stdout"
    ELSE IF a.script THEN "script"
    ELSE IF a.stderr THEN "stderr"
    ELSE "table"

\* lines 199-210: the display mode of the if / elif chain
Dispatch(a) ==
    IF a.json THEN "json"
    ELSE IF a.files THEN "files"
    ELSE IF a.script THEN "script"
    ELSE IF a.stdout THEN "stdout"
    ELSE IF a.stderr THEN "stderr"
    ELSE "table"

\* faulty variant: the dump goes through the filters of the table
json_dumps_filtered(d) ==
    TableRows(d, LowerFields(args.fields),
              IF Truthy(args.grep) /\ ~re_error(args.grep.val) THEN args.grep ELSE NoneStr,
              <<>>)

\* json.dumps(jd.data, indent=2): the object's members
json_dumps(d) == d

jid == job_ids[i]

\* faulty variant: the loop is left
BreakLoop ==
    /\ i' = i + 1
    /\ pc' = "done"
    /\ data' = <<>>

\* the for loop goes on with the next identifier, or ends after the last one
NextJob ==
    /\ i' = i + 1
    /\ pc' = IF i + 1 > Len(job_ids) THEN "done" ELSE "fetch"
    /\ data' = <<>>

\* faulty variant: a failed fetch_data ends the run
AbortRun(kind) ==
    /\ console' = Append(console, [n |-> i, msg |-> Message(kind, jid, "", <<>>, <<>>, "")])
    /\ calls' = Append(calls, [n |-> i, job |-> jid, op |-> "scontrol", path |-> <<>>])
    /\ BreakLoop
    /\ UNCHANGED <<args, job_ids, scontrol, fs>>

\* a failed fetch_data: its message, then continue
SkipJob(kind) ==
    /\ console' = Append(console, [n |-> i, msg |-> Message(kind, jid, "", <<>>, <<>>, "")])
    /\ calls' = Append(calls, [n |-> i, job |-> jid, op |-> "scontrol", path |-> <<>>])
    /\ NextJob
    /\ UNCHANGED <<args, job_ids, scontrol, fs>>

\* subprocess.run(['scontrol', 'show', 'job', ...]) exits 0; its output is parsed
CanFetchOk ==
    /\ pc = "fetch"
    /\ scontrol[jid].result = "ok"

FetchOk ==
    /\ CanFetchOk
    /\ data' = parse_scontrol_output(scontrol[jid].stdout)
    /\ calls' = Append(calls, [n |-> i, job |-> jid, op |-> "scontrol", path |-> <<>>])
    /\ pc' = "display"
    /\ UNCHANGED <<args, job_ids, scontrol, fs, i, console>>

\* scontrol exits non-zero: check=True raises CalledProcessError
FetchCalledProcessError ==
    /\ pc = "fetch"
    /\ scontrol[jid].result = "CalledProcessError"
    /\ SkipJob("error_scontrol")

\* any other exception of subprocess.run (scontrol is not installed, ...)
FetchException ==
    /\ pc = "fetch"
    /\ scontrol[jid].result = "Exception"
    /\ SkipJob("error_unexpected")

\* a display mode prints its message, makes its calls, and the loop goes on
Display(r) ==
    /\ console' = Append(console, [n |-> i, msg |-> r.msg])
    /\ calls' = calls \o [k \in DOMAIN r.calls |->
                            [n |-> i, job |-> jid, op |-> r.calls[k].op,
                             path |-> r.calls[k].path]]
    /\ NextJob
    /\ UNCHANGED <<args, job_ids, scontrol, fs>>

DumpJson ==
    /\ pc = "display"
    /\ Dispatch(args) = "json"
    /\ Display([msg |-> Message("json", 0, "", <<>>, json_dumps(data), ""),
                calls |-> <<>>])

ListFilePaths ==
    /\ pc = "display"
    /\ Dispatch(args) = "files"
    /\ Display(list_file_paths(jid, data))

ShowScript ==
    /\ pc = "display"
    /\ Dispatch(args) = "script"
    /\ Display(show_script(jid, data, args.lines, args.tail))

ShowStdout ==
    /\ pc = "display"
    /\ Dispatch(args) = "stdout"
    /\ Display(show_stdout(jid, data, args.lines, args.tail))

ShowStderr ==
    /\ pc = "display"
    /\ Dispatch(args) = "stderr"
    /\ Display(show_stderr(jid, data, args.lines, args.tail))

PrintTable ==
    /\ pc = "display"
    /\ Dispatch(args) = "table"
    /\ Display([msg |-> print_table(jid, data, args.fields, args.grep),
                calls |-> <<>>])

Next ==
    \/ FetchOk
    \/ FetchCalledProcessError
    \/ FetchException
    \/ DumpJson
    \/ ListFilePaths
    \/ ShowScript
    \/ ShowStdout
    \/ ShowStderr
    \/ PrintTable

-----------------------------------------------------------------------------
(* Inputs: the command line, the answers of scontrol, the file system *)

Tok(k, v) == k \o EQ \o v

RECURSIVE JoinTokens(_)
\* the tokens on one line, separated by spaces
JoinTokens(tokens) ==
    IF tokens = <<>> THEN <<"\n">>
    ELSE IF Len(tokens) = 1 THEN Head(tokens) \o <<"\n">>
    ELSE Head(tokens) \o <<" ">> \o JoinTokens(Tail(tokens))

Ok(text) == [result |-> "ok", stdout |-> text]
Failed(how) == [result |-> how, stdout |-> <<>>]

JobIdSet == {12345, 12346}
JobLists == UNION {[1..n -> JobIdSet] : n \in 1..MaxJobs}

DefaultArgs ==
    [json |-> FALSE, files |-> FALSE, script |-> FALSE, stdout |-> FALSE,
     stderr |-> FALSE, lines |-> NoneInt, tail |-> FALSE, fields |-> NoneList,
     grep |-> NoneStr]

File(lines) == [kind |-> "file", readable |-> TRUE, lines |-> lines]
Unreadable == [kind |-> "file", readable |-> FALSE, lines |-> <<>>]
Dir == [kind |-> "dir", readable |-> TRUE, lines |-> <<>>]
NumberedLines(L) == [k \in 1..L |-> k]

\* file system: path :> entry
Entry(p, e) == [x \in {p} |-> e]

WD == <<"/", "w">>
MainFS ==
    Entry(WD, Dir) @@ Entry(<<"/", "w", "/", "o">>, File(NumberedLines(MaxFileLines)))
    @@ Entry(<<"/", "s">>, Unreadable)

OutA ==
    JoinTokens(<< Tok(<<"J", "o", "b", "I", "d">>, <<"1">>), Tok(KCommand, <<"/", "s">>),
                  Tok(KStdOut, <<"o">>), Tok(KStdErr, NULL), Tok(KWorkDir, WD) >>)
OutB ==
    JoinTokens(<< Tok(<<"U", "s", "e", "r">>, <<"u">>), Tok(KStdOut, <<"/", "m">>) >>)

MainOutcomes == {Failed("CalledProcessError"), Failed("Exception"), Ok(OutA), Ok(OutB)}

MainArgs ==
    {[DefaultArgs EXCEPT !.json = f[1], !.files = f[2], !.script = f[3],
                         !.stdout = f[4], !.stderr = f[5]] : f \in [1..5 -> BOOLEAN]}
    \cup
    {[DefaultArgs EXCEPT !.json = j, !.grep = g, !.fields = fl, !.lines = l, !.tail = t] :
        j \in BOOLEAN, g \in {NoneStr, Some(<<"o">>), Some(<<"(", "o">>)},
        fl \in {NoneList, Some(<< <<"j", "o", "b", "i", "d">> >>)},
        l \in {NoneInt, Some(1)}, t \in BOOLEAN}

InitLoop ==
    /\ i = 1
    /\ pc = "fetch"
    /\ data = <<>>
    /\ console = <<>>
    /\ calls = <<>>

InitMain ==
    /\ args \in MainArgs
    /\ job_ids \in JobLists
    /\ scontrol \in [JobIdSet -> MainOutcomes]
    /\ fs = MainFS
    /\ InitLoop

Init == InitMain

Spec == Init /\ [][Next]_vars

\* every job identifier gets the same answer
Always(outcome) == [j \in JobIdSet |-> outcome]

Mode(m) ==
    [DefaultArgs EXCEPT !.json = (m = "json"), !.files = (m = "files"),
                        !.script = (m = "script"), !.stdout = (m = "stdout"),
                        !.stderr = (m = "stderr")]

(* the parser: every text of at most MaxOutLen characters over 'a', '=', ' ' *)
ParseTexts == UNION {[1..n -> {"a", "=", " "}] : n \in 0..MaxOutLen}

InitParse ==
    /\ args = DefaultArgs
    /\ job_ids = <<12345>>
    /\ scontrol \in {Always(Ok(text)) : text \in ParseTexts}
    /\ fs = MainFS
    /\ InitLoop

SpecParse == (InitMain \/ InitParse) /\ [][Next]_vars

(* the table: keys in both cases, field lists in both cases, every pattern of at
   most MaxPatLen characters *)
TableTokens ==
    { Tok(<<"a">>, <<"1">>), Tok(<<"A">>, <<"2">>), Tok(<<"a", "b">>, <<"3">>),
      Tok(<<"B", "a">>, <<"4">>) }
TableTexts == {JoinTokens(t) : t \in UNION {[1..n -> TableTokens] : n \in 0..MaxTableToks}}
Patterns == UNION {[1..n -> {"a", "B", ".", "^", "$", "("}] : n \in 0..MaxPatLen}
FieldLists ==
    { << <<"a">> >>, << <<"A">> >>, << <<"A", "B">> >>, << <<"b", "a">>, <<"A">> >>,
      << <<>> >> }

InitTable ==
    /\ args \in {[DefaultArgs EXCEPT !.fields = fl, !.grep = g] :
                    fl \in {NoneList} \cup {Some(f) : f \in FieldLists},
                    g \in {NoneStr} \cup {Some(p) : p \in Patterns}}
    /\ job_ids = <<12345>>
    /\ scontrol \in {Always(Ok(text)) : text \in TableTexts}
    /\ fs = MainFS
    /\ InitLoop

SpecTable == (InitMain \/ InitTable) /\ [][Next]_vars

(* the paths: every attribute absent, empty, (null), relative or absolute *)
PathTokens(k, values) ==
    {<<>>} \cup {<<Tok(k, v)>> : v \in values}
PathTexts ==
    {JoinTokens(c \o b \o o \o e \o w) :
        c \in PathTokens(KCommand, {<<>>, NULL, <<"/", "s">>, <<"s">>}),
        b \in PathTokens(KBatchScript, {<<"/", "b">>}),
        o \in PathTokens(KStdOut, {NULL, <<"o">>, <<"/", "o">>}),
        e \in PathTokens(KStdErr, {<<>>, <<"/", "e">>}),
        w \in PathTokens(KWorkDir, {<<>>, NULL, WD, <<"/", "w", "/">>})}

PathFS ==
    Entry(WD, Dir) @@ Entry(<<"/", "w", "/", "o">>, File(NumberedLines(MaxFileLines)))
    @@ Entry(<<"/", "w", "/", "s">>, File(<<1>>)) @@ Entry(<<"s">>, File(<<>>))
    @@ Entry(<<"/", "b">>, File(<<1>>)) @@ Entry(<<"/", "s">>, Unreadable)
    @@ Entry(<<"/", "e">>, Dir)

InitPath ==
    /\ args \in {Mode(m) : m \in {"files", "script", "stdout", "stderr"}}
    /\ job_ids \in {<<12345>>, <<12345, 12346>>}
    /\ scontrol \in {Always(Ok(text)) : text \in PathTexts}
    /\ fs = PathFS
    /\ InitLoop

SpecPath == (InitMain \/ InitPath) /\ [][Next]_vars

(* the file content: every file of at most MaxFileLines lines, every line count
   from -1 to MaxLines *)
FileText ==
    JoinTokens(<< Tok(KCommand, <<"/", "f">>), Tok(KStdOut, <<"f">>),
                  Tok(KStdErr, <<"/", "f">>), Tok(KWorkDir, <<"/">>) >>)

InitFile ==
    /\ args \in {[Mode(m) EXCEPT !.lines = l, !.tail = t] :
                    m \in {"script", "stdout", "stderr"},
                    l \in {NoneInt} \cup {Some(k) : k \in (-1)..MaxLines},
                    t \in BOOLEAN}
    /\ job_ids = <<12345>>
    /\ scontrol = Always(Ok(FileText))
    /\ fs \in {Entry(<<"/", "f">>, File(NumberedLines(L))) : L \in 0..MaxFileLines}
    /\ InitLoop

SpecFile == (InitMain \/ InitFile) /\ [][Next]_vars

-----------------------------------------------------------------------------
(* Properties *)

\* the identifiers whose loop iteration is over
Processed == 1..(i - 1)
FetchedOk(n) == scontrol[job_ids[n]].result = "ok"
\* the attribute mapping of the n-th identifier
Parsed(n) == parse_scontrol_output(scontrol[job_ids[n]].stdout)
\* the messages printed for the n-th identifier
MsgsOf(n) == {k \in DOMAIN console : console[k].n = n}
TheMsg(n) == console[CHOOSE k \in DOMAIN console : console[k].n = n].msg
IsScontrol(c) == c.op = "scontrol"
IsFsCall(c) == c.op # "scontrol"
\* the file system calls made for the n-th identifier, in order
FsCallsOf(n) ==
    LET Mine(c) == c.n = n /\ IsFsCall(c)
    IN  SelectSeq(calls, Mine)

\* the display mode a message comes from
ModeOf(m) ==
    CASE m.kind = "json" -> "json"
      [] m.kind = "files_table" -> "files"
      [] m.kind \in {"table", "warning_no_fields", "error_regex"} -> "table"
      [] m.kind \in {"panel", "warning_no_path", "error_not_found", "error_read"} ->
            (CASE m.file_type = "script" -> "script"
               [] m.file_type = "stdout log" -> "stdout"
               [] m.file_type = "stderr log" -> "stderr")
      [] OTHER -> "none"

Priority == <<"json", "files", "script", "stdout", "stderr">>
FlagSet(m) ==
    CASE m = "json" -> args.json
      [] m = "files" -> args.files
      [] m = "script" -> args.script
      [] m = "stdout" -> args.stdout
      [] m = "stderr" -> args.stderr
\* the highest-priority mode whose flag is set; the table when none is
ExpectedMode ==
    IF \E k \in DOMAIN Priority : FlagSet(Priority[k])
    THEN Priority[CHOOSE k \in DOMAIN Priority :
                    /\ FlagSet(Priority[k])
                    /\ \A h \in 1..(k - 1) : ~FlagSet(Priority[h])]
    ELSE "table"

\* C1: for every identifier whose fetch succeeds and every combination of the five
\* flags, exactly one display mode runs: the highest-priority one whose flag is set
\* (structured dump > file paths > script > stdout > stderr), the table only when
\* none of the flags is set.
C1_OneModeByPriority ==
    \A n \in Processed :
        FetchedOk(n) =>
            /\ Cardinality(MsgsOf(n)) = 1
            /\ ModeOf(TheMsg(n)) = ExpectedMode
            /\ (ModeOf(TheMsg(n)) = "table") =
                  (~args.json /\ ~args.files /\ ~args.script /\ ~args.stdout /\ ~args.stderr)

C1_Witness ==
    /\ args.script /\ args.stdout /\ args.stderr /\ ~args.json /\ ~args.files
    /\ \E n \in Processed : FetchedOk(n) /\ ModeOf(TheMsg(n)) = "script"

\* the scontrol invocations so far are one per identifier, in input order
FetchedInOrder ==
    LET runs == SelectSeq(calls, IsScontrol)
        upto == IF pc = "display" THEN i ELSE i - 1
    IN  /\ Len(runs) = upto
        /\ \A n \in 1..upto : runs[n].n = n /\ runs[n].job = job_ids[n]

\* some step of the loop can be taken
CanStep ==
    \/ CanFetchOk
    \/ ENABLED (FetchCalledProcessError \/ FetchException \/ DumpJson \/ ListFilePaths
                  \/ ShowScript \/ ShowStdout \/ ShowStderr \/ PrintTable)

\* the run stops only after the last identifier, and goes on until then
RunsToTheEnd ==
    /\ pc = "done" => i = Len(job_ids) + 1
    /\ pc # "done" => i <= Len(job_ids) /\ CanStep

\* C2: the identifiers are processed one at a time in input order; a failed fetch
\* prints one error naming the identifier, runs no display mode for it and does not
\* stop the run: every later identifier is fetched and, if fetched, displayed, and
\* the run reaches the end of the list.
C2_FetchFailureSkipsOneJob ==
    /\ FetchedInOrder
    /\ RunsToTheEnd
    /\ Len(console) = i - 1
    /\ \A k \in DOMAIN console : console[k].n = k
    /\ \A n \in Processed :
          IF FetchedOk(n)
          THEN ModeOf(TheMsg(n)) # "none"
          ELSE /\ TheMsg(n).kind \in {"error_scontrol", "error_unexpected"}
               /\ TheMsg(n).job = job_ids[n]
               /\ FsCallsOf(n) = <<>>

C2_Witness ==
    /\ pc = "done"
    /\ Len(job_ids) >= 2
    /\ ~FetchedOk(1)
    /\ FetchedOk(2)
    /\ console[1].msg.kind = "error_scontrol"
    /\ ModeOf(console[2].msg) # "none"

\* C9: with --json the output for every fetched job is the full attribute mapping as
\* parsed, every key with its value; --fields, --grep (a valid or an invalid
\* pattern), --lines and --tail do not change it.
C9_JsonDumpIsUnfiltered ==
    \A n \in Processed :
        (FetchedOk(n) /\ args.json) =>
            /\ Cardinality(MsgsOf(n)) = 1
            /\ TheMsg(n).kind = "json"
            /\ TheMsg(n).body = Parsed(n)
            /\ FsCallsOf(n) = <<>>

C9_Witness ==
    /\ args.json
    /\ args.fields.some
    /\ args.grep.some /\ re_error(args.grep.val)
    /\ args.lines.some /\ args.tail
    /\ \E n \in Processed :
          FetchedOk(n) /\ TheMsg(n).kind = "json" /\ Len(TheMsg(n).body) > 1

NoModeFlag == ~args.json /\ ~args.files /\ ~args.script /\ ~args.stdout /\ ~args.stderr

\* C7: when the --grep pattern is not a valid regular expression, print_table prints
\* one error naming the pattern and nothing else for that job (no table, no warning),
\* and the run goes on: the remaining identifiers are fetched and processed.
C7_InvalidRegexAbandonsOneTable ==
    /\ FetchedInOrder
    /\ RunsToTheEnd
    /\ \A n \in Processed :
          (FetchedOk(n) /\ NoModeFlag /\ args.grep.some /\ re_error(args.grep.val)) =>
              /\ Cardinality(MsgsOf(n)) = 1
              /\ TheMsg(n).kind = "error_regex"
              /\ TheMsg(n).body = args.grep.val

C7_Witness ==
    /\ pc = "done"
    /\ Len(job_ids) >= 2
    /\ NoModeFlag
    /\ args.grep.some /\ re_error(args.grep.val)
    /\ FetchedOk(1) /\ FetchedOk(2)
    /\ console[1].msg.kind = "error_regex"
    /\ console[2].msg.kind = "error_regex"

\* the path value show_file_content is given in each file mode, and its file type
PathValue(n) ==
    CASE ExpectedMode = "script" -> get_script_path(Parsed(n))
      [] ExpectedMode = "stdout" -> get_stdout_path(Parsed(n))
      [] ExpectedMode = "stderr" -> get_stderr_path(Parsed(n))
FileType ==
    CASE ExpectedMode = "script" -> "script"
      [] ExpectedMode = "stdout" -> "stdout log"
      [] ExpectedMode = "stderr" -> "stderr log"
\* a value that is neither absent, nor empty, nor (null)
Available(v) == v.some /\ v.val # <<>> /\ v.val # NULL
ReadFails(p) == fs[p].kind # "file" \/ ~fs[p].readable

\* C10: show_file_content shows content only when the path value is available and
\* the resolved path exists.  A missing value (absent, empty, (null)): a warning, no
\* existence check, no read.  A path that does not exist: an error, no read.  A
\* failing read: an error naming the file type and the path, no panel.  None of
\* these stops the run.
C10_FileContentFailuresAreLocal ==
    /\ FetchedInOrder
    /\ RunsToTheEnd
    /\ \A n \in Processed :
          (FetchedOk(n) /\ ExpectedMode \in {"script", "stdout", "stderr"}) =>
              LET m == TheMsg(n)
                  c == FsCallsOf(n)
                  v == PathValue(n)
              IN  /\ Cardinality(MsgsOf(n)) = 1
                  /\ ~Available(v) => m.kind = "warning_no_path" /\ c = <<>>
                  /\ Available(v) =>
                        /\ Len(c) >= 1
                        /\ c[1].op = "exists"
                        /\ IF c[1].path \notin DOMAIN fs
                           THEN m.kind = "error_not_found" /\ Len(c) = 1
                           ELSE /\ Len(c) = 2
                                /\ c[2] = [c[1] EXCEPT !.op = "open"]
                                /\ IF ReadFails(c[1].path)
                                   THEN /\ m.kind = "error_read"
                                        /\ m.file_type = FileType
                                        /\ m.path = c[1].path
                                   ELSE /\ m.kind = "panel"
                                        /\ m.path = c[1].path

C10_Witness ==
    /\ pc = "done"
    /\ Len(job_ids) = 2
    /\ ExpectedMode = "script"
    /\ FetchedOk(1) /\ FetchedOk(2)
    /\ PathValue(1).some /\ PathValue(1).val = NULL
    /\ console[1].msg.kind = "warning_no_path"
    /\ console[2].msg.kind = "warning_no_path"

-----------------------------------------------------------------------------
(* The parser, stated on the text *)

\* the tokens of a text: the maximal runs of non-whitespace, as <<first, last>>
TokenSpans(s) ==
    {<<a, CHOOSE b \in a..Len(s) :
              /\ \A k \in a..b : s[k] \notin Whitespace
              /\ b = Len(s) \/ s[b + 1] \in Whitespace>> :
        a \in {a \in DOMAIN s : s[a] \notin Whitespace /\ (a = 1 \/ s[a - 1] \in Whitespace)}}
EqSpans(s) == {sp \in TokenSpans(s) : \E k \in sp[1]..sp[2] : s[k] = "="}
\* the position of the first '=' of a token
FirstEq(s, sp) ==
    CHOOSE k \in sp[1]..sp[2] : s[k] = "=" /\ \A h \in sp[1]..(k - 1) : s[h] # "="
KeyOf(s, sp) == SubSeq(s, sp[1], FirstEq(s, sp) - 1)
ValueOf(s, sp) == SubSeq(s, FirstEq(s, sp) + 1, sp[2])
\* the last token with the key of sp
LastWithKey(s, key) ==
    CHOOSE sp \in EqSpans(s) :
        /\ KeyOf(s, sp) = key
        /\ \A other \in EqSpans(s) : KeyOf(s, other) = key => other[1] <= sp[1]

\* C3: the mapping parse_scontrol_output returns has exactly the keys that stand
\* before the first '=' of the tokens containing '=', each mapped to the text after
\* the first '=' of the last token with that key; tokens without '=' add nothing and
\* change no value; a text without tokens gives the empty mapping.
C3_ParseLastWins ==
    pc = "display" =>
        LET s == scontrol[jid].stdout
        IN  /\ {data[n][1] : n \in DOMAIN data} = {KeyOf(s, sp) : sp \in EqSpans(s)}
            /\ \A n, h \in DOMAIN data : data[n][1] = data[h][1] => n = h
            /\ \A n \in DOMAIN data :
                  data[n][2] = ValueOf(s, LastWithKey(s, data[n][1]))
            /\ EqSpans(s) = {} => data = <<>>

C3_Witness ==
    /\ pc = "display"
    /\ LET s == scontrol[jid].stdout
       IN  /\ \E a, b \in EqSpans(s) :
                /\ a[1] < b[1]
                /\ KeyOf(s, a) = KeyOf(s, b)
                /\ ValueOf(s, a) # ValueOf(s, b)
                /\ \E t \in TokenSpans(s) \ EqSpans(s) : a[1] < t[1] /\ t[1] < b[1]
    /\ Len(data) = 1

-----------------------------------------------------------------------------
(* The table, stated on the keys *)

\* the pattern p matches the key from offset a on: every letter and '.' takes one
\* character (a letter in either case), '^' stands at the start, '$' at the end
MatchesFrom(p, key, a) ==
    \A k \in DOMAIN p :
        LET q == a + Cardinality({h \in 1..(k - 1) : p[h] \notin {"^", "$"}})
        IN  CASE p[k] = "^" -> q = 0
              [] p[k] = "$" -> q = Len(key)
              [] p[k] = "." -> q < Len(key)
              [] OTHER -> q < Len(key) /\ LowerChar(key[q + 1]) = LowerChar(p[k])
FoundSomewhere(p, key) == \E a \in 0..Len(key) : MatchesFrom(p, key, a)

FieldWanted(key) ==
    \/ ~args.fields.some
    \/ \E k \in DOMAIN args.fields.val : lower(args.fields.val[k]) = lower(key)
PatternWanted(key) ==
    \/ ~args.grep.some
    \/ FoundSomewhere(args.grep.val, key)
RowWanted(pair) == FieldWanted(pair[1]) /\ PatternWanted(pair[1])

\* the field list with every name in lower case
FieldsLowered ==
    IF args.fields.some
    THEN Some([k \in DOMAIN args.fields.val |-> lower(args.fields.val[k])])
    ELSE args.fields

\* C6: the rows print_table shows are exactly the pairs of the mapping whose key is
\* (no field list, or in the field list after lowercasing both) and (no pattern, or
\* matched somewhere by the pattern, ignoring case), in the mapping's order; the
\* casing of the requested names does not matter.
C6_TableRowsAreTheWantedPairs ==
    \A n \in Processed :
        (FetchedOk(n) /\ NoModeFlag /\ ~(args.grep.some /\ re_error(args.grep.val))) =>
            LET rows == SelectSeq(Parsed(n), RowWanted)
                m == TheMsg(n)
            IN  /\ Cardinality(MsgsOf(n)) = 1
                /\ IF rows = <<>>
                   THEN m.kind = "warning_no_fields"
                   ELSE m.kind = "table" /\ m.body = rows
                /\ m = print_table(job_ids[n], Parsed(n), FieldsLowered, args.grep)

C6_Witness ==
    /\ pc = "done"
    /\ FetchedOk(1)
    /\ NoModeFlag
    /\ args.fields.some /\ FieldsLowered # args.fields /\ Len(args.fields.val) = 2
    /\ args.grep.some /\ args.grep.val = <<"B">>
    /\ console[1].msg.kind = "table"
    /\ Len(console[1].msg.body) = 1
    /\ Len(Parsed(1)) = 2

-----------------------------------------------------------------------------
(* Paths and file content, stated on the attributes *)

FileModes == {"script", "stdout", "stderr"}
Min(a, b) == IF a < b THEN a ELSE b

\* C5: for a file of L lines and a line count N >= 0 given with --lines, the panel
\* shows exactly the first min(N, L) lines, with --tail exactly the last min(N, L)
\* lines; without a line count it shows the whole file, with or without --tail.
C5_LineCountLimitsContent ==
    \A n \in Processed :
        (FetchedOk(n) /\ ExpectedMode \in FileModes /\ TheMsg(n).kind = "panel") =>
            LET f == fs[TheMsg(n).path].lines
                L == Len(f)
                k == Min(args.lines.val, L)
            IN  IF args.lines.some
                THEN args.lines.val >= 0 =>
                        TheMsg(n).body = IF args.tail
                                         THEN SubSeq(f, L - k + 1, L)
                                         ELSE SubSeq(f, 1, k)
                ELSE TheMsg(n).body = f

PathAttrs == {KCommand, KBatchScript, KStdOut, KStdErr, KWorkDir}
\* the mapping without the attribute k
Without(d, k) ==
    LET Other(pair) == pair[1] # k
    IN  SelectSeq(d, Other)
\* what the display mode of the run prints and looks up for the mapping d
ModeResult(job, d) ==
    CASE ExpectedMode = "script" -> show_script(job, d, args.lines, args.tail)
      [] ExpectedMode = "stdout" -> show_stdout(job, d, args.lines, args.tail)
      [] ExpectedMode = "stderr" -> show_stderr(job, d, args.lines, args.tail)
      [] ExpectedMode = "files" -> list_file_paths(job, d)
\* the file system calls of the n-th identifier, as the display mode returns them
PlainFsCalls(n) ==
    [k \in DOMAIN FsCallsOf(n) |-> Call(FsCallsOf(n)[k].op, FsCallsOf(n)[k].path)]
ScriptChoice(d) ==
    IF Available(get_script_path(d)) THEN get_script_path(d) ELSE NoneStr

\* C4: an attribute among Command, BatchScript, StdOut, StdErr, WorkDir whose value is
\* (null) or empty counts as absent: what is printed and which paths are looked up,
\* and the script path chosen, are those of the mapping without that attribute.
C4_NullIsAbsent ==
    \A n \in Processed :
        (FetchedOk(n) /\ ExpectedMode \in FileModes \cup {"files"}) =>
            \A k \in PathAttrs :
                (DictHas(Parsed(n), k) /\ ~Available(DictGet(Parsed(n), k))) =>
                    LET r == ModeResult(job_ids[n], Without(Parsed(n), k))
                    IN  /\ TheMsg(n) = r.msg
                        /\ PlainFsCalls(n) = r.calls
                        /\ ScriptChoice(Parsed(n)) = ScriptChoice(Without(Parsed(n), k))

\* the attribute's value, when it is available
Attr(d, k) == IF Available(DictGet(d, k)) THEN DictGet(d, k) ELSE NoneStr
\* the script, stdout and stderr paths of a mapping: Command, or BatchScript if absent
PathOf(d, mode) ==
    CASE mode = "script" ->
            (IF Attr(d, KCommand).some THEN Attr(d, KCommand) ELSE Attr(d, KBatchScript))
      [] mode = "stdout" -> Attr(d, KStdOut)
      [] mode = "stderr" -> Attr(d, KStdErr)
\* an absolute path unchanged; another one joined to the working directory if that
\* is present, unchanged otherwise
ResolvedPath(d, path) ==
    IF isabs(path) THEN path
    ELSE IF Attr(d, KWorkDir).some THEN join(Attr(d, KWorkDir).val, path)
    ELSE path
ModeOrder == <<"script", "stdout", "stderr">>
IsExists(c) == c.op = "exists"

\* C8: every available script, stdout or stderr path is looked up unchanged when
\* absolute, joined to the working directory when relative and the working directory
\* is present, unchanged otherwise; show_file_content and list_file_paths look up
\* the same path.
C8_RelativePathsJoinWorkDir ==
    \A n \in Processed :
        LET d == Parsed(n)
            looked == SelectSeq(FsCallsOf(n), IsExists)
        IN  /\ (FetchedOk(n) /\ ExpectedMode \in FileModes
                  /\ PathOf(d, ExpectedMode).some) =>
                    /\ Len(looked) = 1
                    /\ looked[1].path = ResolvedPath(d, PathOf(d, ExpectedMode).val)
            /\ (FetchedOk(n) /\ ExpectedMode = "files") =>
                    LET HasPath(mode) == PathOf(d, mode).some
                        modes == SelectSeq(ModeOrder, HasPath)
                    IN  /\ Len(looked) = Len(modes)
                        /\ \A k \in DOMAIN modes :
                              looked[k].path = ResolvedPath(d, PathOf(d, modes[k]).val)

====
